---- MODULE Spec2Model ----
(***************************************************************************)
(* options-flow-forecast backend: the CSV flow parser                      *)
(* (app/services/parser.py), the feature engine (features.py), the         *)
(* scenario scorer (model.py), the assembler (analyze.py) and the          *)
(* /ingest and /analyze handlers (main.py).                                *)
(*                                                                         *)
(* Conventions.                                                            *)
(*  - An Optional value is a sequence of at most one element: None is <<>> *)
(*    and Some(v) is <<v>>.                                                *)
(*  - A cell's text is a sequence of one-character strings, so that        *)
(*    strip(), lower(), replace() and float() are computed on characters.  *)
(*  - A header name is held by its structure: the lower-case, trimmed      *)
(*    text, whether the raw name is written in capitals, and whether it is *)
(*    padded with blanks.                                                  *)
(*  - Floats are exact integers (dollars); the texts below spell no        *)
(*    decimal point, exponent, inf or nan literal reaching float().        *)
(***************************************************************************)
EXTENDS Integers, Sequences, FiniteSets, TLC

VARIABLES
    csv,         \* the arguments of parse_csv_bytes: the bytes as pandas tabulates
                 \* them (header, rows) and the provider tag
    runs,        \* per call of the pipeline: where it stands and the values it holds
    model_file,  \* what MODEL_PATH holds on disk
    uploads,     \* the Upload table, in insertion order
    analyses,    \* the Analysis table, in insertion order
    response     \* what the last request handled by main.py ended in

vars == <<csv, runs, model_file, uploads, analyses, response>>
server == <<uploads, analyses, response>>

None == <<>>
Some(v) == <<v>>
IsNone(o) == o = <<>>
Val(o) == o[1]

(***************************************************************************)
(* Python str methods on character sequences.                              *)
(***************************************************************************)
UpperChars == <<"A","B","C","D","E","F","G","H","I","J","K","L","M",
                "N","O","P","Q","R","S","T","U","V","W","X","Y","Z">>
LowerChars == <<"a","b","c","d","e","f","g","h","i","j","k","l","m",
                "n","o","p","q","r","s","t","u","v","w","x","y","z">>
DigitChars == <<"0","1","2","3","4","5","6","7","8","9">>

IsSpace(ch) == ch \in {" ", "\t"}

LowerChar(ch) ==
    IF \E i \in 1..26 : UpperChars[i] = ch
    THEN LowerChars[CHOOSE i \in 1..26 : UpperChars[i] = ch]
    ELSE ch

RECURSIVE lstrip(_)
lstrip(s) == IF s # <<>> /\ IsSpace(Head(s)) THEN lstrip(Tail(s)) ELSE s

RECURSIVE rstrip(_)
rstrip(s) ==
    IF s # <<>> /\ IsSpace(s[Len(s)]) THEN rstrip(SubSeq(s, 1, Len(s) - 1)) ELSE s

strip(s) == rstrip(lstrip(s))

RECURSIVE lower(_)
lower(s) == IF s = <<>> THEN <<>> ELSE <<LowerChar(Head(s))>> \o lower(Tail(s))

\* s.replace(ch, "") for every ch of chars
RemoveChars(s, chars) == SelectSeq(s, LAMBDA ch : ch \notin chars)

\* sub in s
Contains(s, sub) ==
    \E i \in 1..(Len(s) - Len(sub) + 1) : SubSeq(s, i, i + Len(sub) - 1) = sub

IsDigit(ch) == \E i \in 1..10 : DigitChars[i] = ch
DigitVal(ch) == (CHOOSE i \in 1..10 : DigitChars[i] = ch) - 1

RECURSIVE DigitsValue(_, _)
DigitsValue(s, acc) ==
    IF s = <<>> THEN acc ELSE DigitsValue(Tail(s), acc * 10 + DigitVal(Head(s)))

AllDigits(s) == s # <<>> /\ \A i \in 1..Len(s) : IsDigit(s[i])

\* float(s): blanks around the literal are ignored, one sign is allowed, the
\* rest must be digits; anything else is a ValueError (None here).
PyFloat(s) ==
    LET t == strip(s)
        signed == t # <<>> /\ Head(t) \in {"-", "+"}
        body == IF signed THEN Tail(t) ELSE t
    IN  IF AllDigits(body)
        THEN Some(IF signed /\ Head(t) = "-" THEN 0 - DigitsValue(body, 0)
                  ELSE DigitsValue(body, 0))
        ELSE None

(***************************************************************************)
(* Texts the code names.                                                   *)
(***************************************************************************)
T_nan == <<"n","a","n">>
T_none == <<"n","o","n","e">>
T_ask == <<"a","s","k">>
T_offer == <<"o","f","f","e","r">>
T_bid == <<"b","i","d">>
T_mid == <<"m","i","d">>
T_between == <<"b","e","t","w","e","e","n">>
T_c == <<"c">>
T_call == <<"c","a","l","l">>
T_calls == <<"c","a","l","l","s">>
T_p == <<"p">>
T_put == <<"p","u","t">>
T_puts == <<"p","u","t","s">>

\* pd.read_csv: the cell texts pandas reads as a missing value (NaN)
PandasNA == { <<>>, <<"N","A">>, <<"N","a","N">>, T_nan, <<"n","/","a">>,
              <<"N","/","A">>, <<"n","u","l","l">>, <<"N","U","L","L">> }

\* str(r[col]): a missing value prints as "nan"
PyStr(cell) == IF cell \in PandasNA THEN T_nan ELSE cell

(***************************************************************************)
(* parser.py                                                               *)
(***************************************************************************)
Fields == {"symbol", "underlying", "expiry", "strike", "option_type", "side",
           "price", "size", "premium", "open_interest", "iv", "delta",
           "timestamp"}

COLUMN_CANDIDATES ==
    [f \in Fields |->
        CASE f = "symbol" -> <<"symbol", "ticker", "underlying", "root", "stock">>
          [] f = "underlying" -> <<"underlying", "root", "ticker">>
          [] f = "expiry" -> <<"expiry", "expiration", "exp", "expiration_date", "exp_date">>
          [] f = "strike" -> <<"strike", "strike_price", "strikeprice", "k">>
          [] f = "option_type" -> <<"type", "call_put", "cp", "option_type">>
          [] f = "side" -> <<"side", "bidask", "bid_ask", "aggressor", "at", "tick">>
          [] f = "price" -> <<"price", "trade_price", "fill_price", "avg_price">>
          [] f = "size" -> <<"size", "qty", "quantity", "volume", "contracts">>
          [] f = "premium" -> <<"premium", "notional", "value", "amount">>
          [] f = "open_interest" -> <<"oi", "open_interest">>
          [] f = "iv" -> <<"iv", "implied_vol", "implied_volatility">>
          [] f = "delta" -> <<"delta">>
          [] f = "timestamp" -> <<"time", "timestamp", "ts", "date_time">>]

\* A raw header name: name.text written in capitals and/or padded with blanks.
ColLower(name) == [name EXCEPT !.caps = FALSE]
ColStrip(name) == [name EXCEPT !.pad = FALSE]
\* the string a candidate literal is
ColLiteral(text) == [text |-> text, caps |-> FALSE, pad |-> FALSE]

\* variant of ColKey: c.lower() without the strip()
ColKeyUnstripped(c) == ColLower(c)

\* c.lower().strip()
ColKey(c) == ColStrip(ColLower(c))

\* cols = {c.lower().strip(): c for c in df.columns}: a later column with the
\* same key replaces an earlier one
ColsHas(header, key) == \E i \in 1..Len(header) : ColKey(header[i]) = key
ColsGet(header, key) ==
    LET last == CHOOSE i \in 1..Len(header) :
                    /\ ColKey(header[i]) = key
                    /\ \A j \in (i + 1)..Len(header) : ColKey(header[j]) # key
    IN  header[last]

\* the inner loop: the first candidate that is a key of cols
RECURSIVE FirstCandidate(_, _)
FirstCandidate(header, cands) ==
    IF cands = <<>> THEN None
    ELSE IF ColsHas(header, ColLiteral(Head(cands)))
         THEN Some(ColsGet(header, ColLiteral(Head(cands))))
         ELSE FirstCandidate(header, Tail(cands))

\* mapping.get(key) for every key: None when the loop never assigned it
_normalize_columns(header) ==
    [f \in Fields |-> FirstCandidate(header, COLUMN_CANDIDATES[f])]

_to_float(val) ==
    LET s == strip(PyStr(val))
    IN  IF s = <<>> \/ lower(s) \in {T_nan, T_none} THEN None
        ELSE PyFloat(RemoveChars(RemoveChars(s, {","}), {"$", "%"}))

_normalize_side(val) ==
    LET s == lower(PyStr(val))
    IN  IF Contains(s, T_ask) \/ Contains(s, T_offer) THEN "ASK"
        ELSE IF Contains(s, T_bid) THEN "BID"
        ELSE IF Contains(s, T_mid) \/ Contains(s, T_between) THEN "MID"
        ELSE "UNKNOWN"

_normalize_option_type(val) ==
    LET s == lower(strip(PyStr(val)))
    IN  IF s \in {T_c, T_call, T_calls} THEN Some("C")
        ELSE IF s \in {T_p, T_put, T_puts} THEN Some("P")
        ELSE None

\* r[mapping[f]]: the cell of row r under the column mapped to f
ColumnIndex(header, name) == CHOOSE i \in 1..Len(header) : header[i] = name
CellOf(header, r, mapping, f) == r[ColumnIndex(header, Val(mapping[f]))]

\* x or y on Optional texts: None and "" are falsy
Truthy(o) == ~IsNone(o) /\ Val(o) # <<>>

\* variant of DerivePremium: the test on "premium is None" left out
DerivePremiumAlways(premium, price, size) ==
    IF ~IsNone(price) /\ ~IsNone(size)
    THEN Some(Val(price) * Val(size) * 100)
    ELSE premium

\* the premium after "if premium is None and price is not None and size is not None"
DerivePremium(premium, price, size) ==
    IF IsNone(premium) /\ ~IsNone(price) /\ ~IsNone(size)
    THEN Some(Val(price) * Val(size) * 100)
    ELSE premium

\* "if strike is None or opt_type is None: continue"
SkipRow(strike, opt_type) == IsNone(strike) \/ IsNone(opt_type)

\* One iteration of the row loop: None when the row is skipped, else the FlowRow.
BuildRow(header, r, mapping) ==
    LET text(f) == IF IsNone(mapping[f]) THEN None
                   ELSE Some(strip(PyStr(CellOf(header, r, mapping, f))))
        num(f) == IF IsNone(mapping[f]) THEN None
                  ELSE _to_float(CellOf(header, r, mapping, f))
        symbol == text("symbol")
        underlying == text("underlying")
        strike == num("strike")
        opt_type == IF IsNone(mapping["option_type"]) THEN None
                    ELSE _normalize_option_type(CellOf(header, r, mapping, "option_type"))
        side == IF IsNone(mapping["side"]) THEN "UNKNOWN"
                ELSE _normalize_side(CellOf(header, r, mapping, "side"))
        price == num("price")
        size == num("size")
        premium == DerivePremium(num("premium"), price, size)
    IN  IF SkipRow(strike, opt_type) THEN None
        ELSE Some([symbol |-> IF Truthy(symbol) THEN Val(symbol)
                              ELSE IF Truthy(underlying) THEN Val(underlying)
                              ELSE <<>>,
                   underlying |-> IF Truthy(underlying) THEN underlying ELSE symbol,
                   expiry |-> text("expiry"),
                   strike |-> Val(strike),
                   option_type |-> Val(opt_type),
                   side |-> Some(side),
                   price |-> price,
                   size |-> size,
                   premium |-> premium,
                   open_interest |-> num("open_interest"),
                   iv |-> num("iv"),
                   delta |-> num("delta"),
                   timestamp |-> text("timestamp")])

\* variant of ParseRows: "break" where the loop has "continue"
RECURSIVE ParseRowsUntilSkip(_, _, _, _)
ParseRowsUntilSkip(header, raw, mapping, rows) ==
    IF raw = <<>> THEN rows
    ELSE LET row == BuildRow(header, Head(raw), mapping)
         IN  IF IsNone(row) THEN rows
             ELSE ParseRowsUntilSkip(header, Tail(raw), mapping, Append(rows, Val(row)))

RECURSIVE ParseRows(_, _, _, _)
ParseRows(header, raw, mapping, rows) ==
    IF raw = <<>> THEN rows
    ELSE LET row == BuildRow(header, Head(raw), mapping)
         IN  ParseRows(header, Tail(raw), mapping,
                       IF IsNone(row) THEN rows ELSE Append(rows, Val(row)))

parse_csv_bytes(data, provider) ==
    [rows |-> ParseRows(data.header, data.rows, _normalize_columns(data.header), <<>>),
     provider |-> provider]

(***************************************************************************)
(* Exact rationals, for the float quotients of features.py.                *)
(***************************************************************************)
Abs(n) == IF n < 0 THEN 0 - n ELSE n
Min(a, b) == IF a <= b THEN a ELSE b

RECURSIVE GCD(_, _)
GCD(a, b) == IF b = 0 THEN a ELSE GCD(b, a % b)

\* n / d, d # 0, in lowest terms with a positive denominator
Rat(n, d) ==
    LET g == GCD(Abs(n), Abs(d))
        sgn == IF d < 0 THEN 0 - 1 ELSE 1
    IN  [num |-> (sgn * n) \div g, den |-> (sgn * d) \div g]

RatAdd(a, b) == Rat(a.num * b.den + b.num * a.den, a.den * b.den)
RatSub(a, b) == Rat(a.num * b.den - b.num * a.den, a.den * b.den)
RatLeq(a, b) == a.num * b.den <= b.num * a.den

\* integer quotient rounded toward zero
TruncDiv(n, d) == IF n >= 0 THEN n \div d ELSE 0 - ((0 - n) \div d)

RECURSIVE SumSeq(_)
SumSeq(s) == IF s = <<>> THEN 0 ELSE Head(s) + SumSeq(Tail(s))

Map(s, Op(_)) == [i \in 1..Len(s) |-> Op(s[i])]
Take(s, n) == SubSeq(s, 1, Min(n, Len(s)))

(***************************************************************************)
(* features.py                                                             *)
(***************************************************************************)
EPS_INV == 1000000        \* 1 / 1e-6
TOP_STRIKES == 8

\* row.premium or 0.0
PremiumOrZero(row) == IF IsNone(row.premium) THEN 0 ELSE Val(row.premium)

\* row.side or default; side values are the upper-case literals of FlowRow
SideOr(row, default) == IF IsNone(row.side) THEN default ELSE Val(row.side)

\* variant of _premium_signed: the BID branch returns premium
_premium_unsigned(row) ==
    LET premium == PremiumOrZero(row)
        side == SideOr(row, "UNKNOWN")
    IN  IF side \in {"ASK", "BID"} THEN premium ELSE 0

_premium_signed(row) ==
    LET premium == PremiumOrZero(row)
        side == SideOr(row, "UNKNOWN")
    IN  IF side = "ASK" THEN premium
        ELSE IF side = "BID" THEN 0 - premium
        ELSE 0

\* variant of GroupByStrike: by_strike[r.strike] = prem, the earlier rows of
\* the strike forgotten
RECURSIVE GroupByStrikeLast(_, _)
GroupByStrikeLast(rows, acc) ==
    IF rows = <<>> THEN acc
    ELSE LET r == Head(rows)
             prem == PremiumOrZero(r)
             seen == \E i \in 1..Len(acc) : acc[i][1] = r.strike
         IN  GroupByStrikeLast(Tail(rows),
                IF seen
                THEN [i \in 1..Len(acc) |->
                        IF acc[i][1] = r.strike THEN <<acc[i][1], prem>> ELSE acc[i]]
                ELSE Append(acc, <<r.strike, prem>>))

\* by_strike[r.strike] = by_strike.get(r.strike, 0.0) + prem, a dict in insertion
\* order: a sequence of <<strike, premium>>
RECURSIVE GroupByStrike(_, _)
GroupByStrike(rows, acc) ==
    IF rows = <<>> THEN acc
    ELSE LET r == Head(rows)
             prem == PremiumOrZero(r)
             seen == \E i \in 1..Len(acc) : acc[i][1] = r.strike
         IN  GroupByStrike(Tail(rows),
                IF seen
                THEN [i \in 1..Len(acc) |->
                        IF acc[i][1] = r.strike THEN <<acc[i][1], acc[i][2] + prem>>
                        ELSE acc[i]]
                ELSE Append(acc, <<r.strike, prem>>))

\* variant of InsertDesc: an equal key goes in front (an ascending sort reversed)
RECURSIVE InsertDescReversed(_, _)
InsertDescReversed(sorted, kv) ==
    IF sorted = <<>> THEN <<kv>>
    ELSE IF Head(sorted)[2] > kv[2]
         THEN <<Head(sorted)>> \o InsertDescReversed(Tail(sorted), kv)
    ELSE <<kv>> \o sorted

\* sorted(items, key=lambda kv: kv[1], reverse=True): stable, equal keys keep
\* their order
RECURSIVE InsertDesc(_, _)
InsertDesc(sorted, kv) ==
    IF sorted = <<>> THEN <<kv>>
    ELSE IF Head(sorted)[2] >= kv[2] THEN <<Head(sorted)>> \o InsertDesc(Tail(sorted), kv)
    ELSE <<kv>> \o sorted

RECURSIVE SortedByPremiumDesc(_, _)
SortedByPremiumDesc(items, sorted) ==
    IF items = <<>> THEN sorted
    ELSE SortedByPremiumDesc(Tail(items), InsertDesc(sorted, Head(items)))

\* (ask_prem - bid_prem) / max(ask_prem + bid_prem, 1e-6), on whole dollars
Aggressiveness(ask_prem, bid_prem) ==
    IF ask_prem + bid_prem >= 1 THEN Rat(ask_prem - bid_prem, ask_prem + bid_prem)
    ELSE Rat((ask_prem - bid_prem) * EPS_INV, 1)

\* the Herfindahl loop
ConcentrationHHI(by_strike, total_premium) ==
    IF total_premium > 0
    THEN Rat(SumSeq(Map(by_strike, LAMBDA kv : kv[2] * kv[2])),
             total_premium * total_premium)
    ELSE Rat(0, 1)

compute_features(flow) ==
    LET rows == flow.rows
        call_rows == SelectSeq(rows, LAMBDA r : r.option_type = "C")
        put_rows == SelectSeq(rows, LAMBDA r : r.option_type = "P")
        net_call == SumSeq(Map(call_rows, _premium_signed))
        net_put == SumSeq(Map(put_rows, _premium_signed))
        total_call_prem == SumSeq(Map(call_rows, PremiumOrZero))
        total_put_prem == SumSeq(Map(put_rows, PremiumOrZero))
        ask_prem == SumSeq(Map(SelectSeq(rows, LAMBDA r : SideOr(r, "") = "ASK"),
                               PremiumOrZero))
        bid_prem == SumSeq(Map(SelectSeq(rows, LAMBDA r : SideOr(r, "") = "BID"),
                               PremiumOrZero))
        by_strike == GroupByStrike(rows, <<>>)
        total_premium == SumSeq(Map(rows, PremiumOrZero))
        top_strikes == Take(SortedByPremiumDesc(by_strike, <<>>), TOP_STRIKES)
        with_delta == SelectSeq(rows, LAMBDA r : ~IsNone(r.delta) /\ ~IsNone(r.premium))
        iv_calls == SelectSeq(rows, LAMBDA r : ~IsNone(r.iv) /\ r.option_type = "C")
        iv_puts == SelectSeq(rows, LAMBDA r : ~IsNone(r.iv) /\ r.option_type # "C")
        iv_sum(rs) == SumSeq(Map(rs, LAMBDA r : Val(r.iv)))
    IN  [net_call_premium |-> net_call,
         net_put_premium |-> net_put,
         call_put_ratio |-> IF total_put_prem # 0 THEN Rat(total_call_prem, total_put_prem)
                            ELSE Rat(0, 1),
         aggressiveness |-> Aggressiveness(ask_prem, bid_prem),
         top_strikes_by_premium |->
             Map(top_strikes, LAMBDA kv : [strike |-> kv[1], premium |-> kv[2]]),
         concentration_hhi |-> ConcentrationHHI(by_strike, total_premium),
         delta_notional |->
             IF with_delta # <<>>
             THEN Some(SumSeq(Map(with_delta, LAMBDA r : Val(r.delta) * PremiumOrZero(r))))
             ELSE None,
         skew_proxy |->
             IF iv_calls # <<>> /\ iv_puts # <<>>
             THEN Some(RatSub(Rat(iv_sum(iv_puts), Len(iv_puts)),
                              Rat(iv_sum(iv_calls), Len(iv_calls))))
             ELSE None]

(***************************************************************************)
(* Python format specs ":,.0f" and ".2f", on characters.                   *)
(***************************************************************************)
RECURSIVE NatDigits(_)
NatDigits(n) ==
    IF n < 10 THEN <<DigitChars[n + 1]>>
    ELSE NatDigits(n \div 10) \o <<DigitChars[(n % 10) + 1]>>

\* a "," before every group of three digits counted from the right
RECURSIVE GroupThousands(_)
GroupThousands(ds) ==
    IF Len(ds) <= 3 THEN ds
    ELSE GroupThousands(SubSeq(ds, 1, Len(ds) - 3)) \o <<",">>
         \o SubSeq(ds, Len(ds) - 2, Len(ds))

\* f"{n:,.0f}" of a whole number
FormatThousands(n) ==
    (IF n < 0 THEN <<"-">> ELSE <<>>) \o GroupThousands(NatDigits(Abs(n)))

\* f"{r:.2f}": two decimals, an exact tie rounds to the even digit
FormatFixed2(r) ==
    LET n == Abs(r.num) * 100
        q == n \div r.den
        rem2 == 2 * (n % r.den)
        cents == IF rem2 > r.den \/ (rem2 = r.den /\ q % 2 = 1) THEN q + 1 ELSE q
        frac == cents % 100
    IN  (IF r.num < 0 THEN <<"-">> ELSE <<>>)
        \o NatDigits(cents \div 100) \o <<".">>
        \o <<DigitChars[(frac \div 10) + 1], DigitChars[(frac % 10) + 1]>>

(***************************************************************************)
(* model.py                                                                *)
(***************************************************************************)
FX_ONE == 100             \* fixed point: the float 1.0 is FX_ONE units
MILLION == 1000000        \* 1_000_000
NEUTRAL_PCT == 15         \* neutral = 0.15
EXP_MAX_PCT == 70978      \* math.exp(x) raises OverflowError for x > 709.78

Clamp(x, lo, hi) == IF x < lo THEN lo ELSE IF x > hi THEN hi ELSE x
ToFixed(r) == TruncDiv(r.num * FX_ONE, r.den)

\* math.tanh, held to its range and its slope at 0
TanhFx(x) == Clamp(x, 0 - FX_ONE, FX_ONE)
\* math.exp(x) is out of the float range
ExpOverflows(x) == x > TruncDiv(EXP_MAX_PCT * FX_ONE, 100)
\* 1 / (1 + math.exp(-score)), held to its range, its value and slope at 0
SigmoidFx(score) == Clamp(FX_ONE \div 2 + TruncDiv(score, 4), 0, FX_ONE)

\* what a scorer call ends in: an exception, or the three probabilities and
\* the strategy that made them
Returned(strategy, proba) == [error |-> "", strategy |-> strategy, proba |-> Some(proba)]
Raised(strategy, error) == [error |-> error, strategy |-> strategy, proba |-> None]

heuristic_forecast(features) ==
    LET net_call == features.net_call_premium
        net_put == features.net_put_premium
        aggr == ToFixed(features.aggressiveness)
        score == TruncDiv(TanhFx(TruncDiv(net_call * FX_ONE, MILLION)) * 8, 10)
                 - TruncDiv(TanhFx(TruncDiv(net_put * FX_ONE, MILLION)) * 8, 10)
                 + TruncDiv(aggr, 2)
        bull == SigmoidFx(score)
        bear == FX_ONE - bull
        neutral == TruncDiv(NEUTRAL_PCT * FX_ONE, 100)
        total == bull + bear + neutral
    IN  IF ExpOverflows(0 - score) THEN Raised("heuristic", "OverflowError")
        ELSE Returned("heuristic", [bull |-> Rat(bull, total),
                                    bear |-> Rat(bear, total),
                                    neutral |-> Rat(neutral, total)])

\* joblib.load(MODEL_PATH) inside try/except Exception: a missing file and a
\* file that does not unpickle both give None
load_model(file) == IF file.state = "model" THEN Some(file) ELSE None

\* model.predict_proba(X)[0]: one probability per class the model was fit on
ModelPredictProba(model, X) == [i \in 1..model.classes |-> Rat(1, model.classes)]

predict_proba(features, file) ==
    LET model == load_model(file)
        X == <<features.net_call_premium, features.net_put_premium,
               features.call_put_ratio, features.aggressiveness,
               features.concentration_hhi>>
        proba == ModelPredictProba(Val(model), X)
    IN  IF IsNone(model) THEN heuristic_forecast(features)
        ELSE IF Len(proba) < 3 THEN Raised("model", "IndexError")
        ELSE Returned("model", [bear |-> proba[1], neutral |-> proba[2],
                                bull |-> proba[3]])

(***************************************************************************)
(* analyze.py                                                              *)
(***************************************************************************)
KEY_LEVELS == 6

\* variant of build_key_levels: rows without a premium are passed over
build_key_levels_priced(flow) ==
    LET priced == SelectSeq(flow.rows, LAMBDA r : ~IsNone(r.premium))
        levels == GroupByStrike(priced, <<>>)
        top == Take(SortedByPremiumDesc(levels, <<>>), KEY_LEVELS)
    IN  Map(top, LAMBDA kv : [strike |-> kv[1],
                              reason |-> [text |-> "High premium concentration",
                                          amount |-> FormatThousands(kv[2])]])

build_key_levels(flow) ==
    LET levels == GroupByStrike(flow.rows, <<>>)
        top == Take(SortedByPremiumDesc(levels, <<>>), KEY_LEVELS)
    IN  Map(top, LAMBDA kv : [strike |-> kv[1],
                              reason |-> [text |-> "High premium concentration",
                                          amount |-> FormatThousands(kv[2])]])

\* the parts that " | ".join(parts) joins
build_rationale(features) ==
    <<[label |-> "Net call premium",
       value |-> FormatThousands(features.net_call_premium)],
      [label |-> "Net put premium",
       value |-> FormatThousands(features.net_put_premium)],
      [label |-> "Call/Put ratio", value |-> FormatFixed2(features.call_put_ratio)],
      [label |-> "Aggressiveness (ask vs bid)",
       value |-> FormatFixed2(features.aggressiveness)]>>
    \o (IF IsNone(features.skew_proxy) THEN <<>>
        ELSE <<[label |-> "Skew proxy",
                value |-> FormatFixed2(Val(features.skew_proxy))]>>)

\* the scenarios of the Forecast, or the exception predict_proba raised
build_forecast(features, file) ==
    LET out == predict_proba(features, file)
    IN  IF out.error # "" THEN [error |-> out.error, strategy |-> out.strategy,
                                scenarios |-> <<>>]
        ELSE [error |-> "", strategy |-> out.strategy,
              scenarios |-> <<[name |-> "bull", probability |-> Val(out.proba).bull],
                              [name |-> "bear", probability |-> Val(out.proba).bear],
                              [name |-> "neutral", probability |-> Val(out.proba).neutral]>>]

(***************************************************************************)
(* The pipeline as a state machine.  A run is one pass of a table through  *)
(* analyze_flow (after parse_csv_bytes when it starts from bytes); pc is   *)
(* the statement it stands before.                                         *)
(***************************************************************************)
NoCsv == [header |-> <<>>, rows |-> <<>>, provider |-> None]
NoTable == [rows |-> <<>>, provider |-> None]
NoForecast == [error |-> "", strategy |-> "", scenarios |-> <<>>]
Missing == [state |-> "missing", classes |-> 0]
Corrupt == [state |-> "corrupt", classes |-> 0]

NewRun(pc, flow) ==
    [pc |-> pc, flow |-> flow, features |-> None, forecast |-> NoForecast,
     key_levels |-> None, rationale |-> None]

\* table = parse_csv_bytes(data, provider)
Parse ==
    /\ runs[1].pc = "parse"
    /\ runs' = [runs EXCEPT ![1].pc = "start",
                            ![1].flow = parse_csv_bytes(csv, csv.provider)]
    /\ UNCHANGED <<csv, model_file, server>>

\* variant of ComputeFeatures: by_strike and the sums live at module level and
\* still hold the rows of the calls made before
RECURSIVE RowsSeen(_)
RowsSeen(t) ==
    IF t = 0 THEN <<>>
    ELSE RowsSeen(t - 1) \o (IF runs[t].pc \notin {"parse", "start"} THEN runs[t].flow.rows
                              ELSE <<>>)

ComputeFeaturesShared(s) ==
    /\ runs[s].pc = "start"
    /\ LET seen == [runs[s].flow EXCEPT !.rows = RowsSeen(Len(runs)) \o @]
       IN  runs' = [runs EXCEPT ![s].pc = "features",
                                ![s].features = Some(compute_features(seen))]
    /\ UNCHANGED <<csv, model_file, server>>

\* features = compute_features(flow)
ComputeFeatures(s) ==
    /\ runs[s].pc = "start"
    /\ runs' = [runs EXCEPT ![s].pc = "features",
                            ![s].features = Some(compute_features(runs[s].flow))]
    /\ UNCHANGED <<csv, model_file, server>>

\* forecast = build_forecast(features): an exception of the scorer ends the run
BuildForecast(s) ==
    /\ runs[s].pc = "features"
    /\ LET out == build_forecast(Val(runs[s].features), model_file)
       IN  runs' = [runs EXCEPT ![s].pc = IF out.error # "" THEN "raised" ELSE "forecast",
                                ![s].forecast = out]
    /\ UNCHANGED <<csv, model_file, server>>

\* key_levels = build_key_levels(flow)
BuildKeyLevels(s) ==
    /\ runs[s].pc = "forecast"
    /\ runs' = [runs EXCEPT ![s].pc = "levels",
                            ![s].key_levels = Some(build_key_levels(runs[s].flow))]
    /\ UNCHANGED <<csv, model_file, server>>

\* rationale = build_rationale(features); return
BuildRationale(s) ==
    /\ runs[s].pc = "levels"
    /\ runs' = [runs EXCEPT ![s].pc = "done",
                            ![s].rationale = Some(build_rationale(Val(runs[s].features)))]
    /\ UNCHANGED <<csv, model_file, server>>

analyze_flow(s) ==
    \/ ComputeFeatures(s)
    \/ BuildForecast(s)
    \/ BuildKeyLevels(s)
    \/ BuildRationale(s)

\* train_baseline: model.fit(X, y) on labels of `classes` classes, then
\* joblib.dump(model, MODEL_PATH), which rewrites the file in place
TrainBegin(classes) ==
    /\ model_file.state # "partial"
    /\ model_file' = [state |-> "partial", classes |-> classes]
    /\ UNCHANGED <<csv, runs, server>>

TrainEnd ==
    /\ model_file.state = "partial"
    /\ model_file' = [model_file EXCEPT !.state = "model"]
    /\ UNCHANGED <<csv, runs, server>>

(***************************************************************************)
(* Inputs.                                                                 *)
(***************************************************************************)
MaxCsvRows == 2           \* rows of a CSV under the header of test_parsing.py
MaxCols == 4              \* columns of a CSV with a free header
MaxRows == 2              \* rows of a table with free rows
MaxWide == 9              \* rows of a table with one strike per row
MaxPermRows == 3          \* rows of a table given in two orders
MaxRuns == 3              \* calls of analyze_flow in flight together

Txt0 == <<>>
Txt_SPXW == <<"S","P","X","W">>
Txt_date == <<"2","0","2","6","-","0","2","-","0","4">>

Plain(text) == [text |-> text, caps |-> FALSE, pad |-> FALSE]

\* the header of test_parse_csv_basic
TestHeader == <<Plain("symbol"), Plain("expiry"), Plain("strike"), Plain("type"),
                Plain("side"), Plain("price"), Plain("size"), Plain("premium")>>

TestRows ==
    {Txt_SPXW} \X {Txt_date}
    \X {<<"6","9","0","0">>, <<"x">>}
    \X {<<"C">>, <<"X">>}
    \X {<<"A","S","K">>}
    \X {<<"3">>}
    \X {<<"1","0">>, <<"x">>}
    \X {<<"$","1",",","4","0","0">>, Txt0, <<"x">>}

\* a row under TestHeader with this strike cell and premium cell
TestCells(strike, premium) ==
    <<Txt_SPXW, Txt_date, strike, <<"C">>, <<"A","S","K">>, <<"3">>, <<"1","0">>, premium>>

\* raw header names a free header is drawn from, in file order
HeaderNames ==
    <<[text |-> "k", caps |-> TRUE, pad |-> FALSE],
      Plain("strike_price"),
      Plain("strike"),
      [text |-> "strike", caps |-> TRUE, pad |-> TRUE],
      [text |-> "cp", caps |-> TRUE, pad |-> FALSE],
      Plain("type"),
      Plain("ticker"),
      Plain("underlying"),
      Plain("notional"),
      Plain("premium"),
      [text |-> "price", caps |-> FALSE, pad |-> TRUE],
      Plain("size"),
      Plain("side"),
      Plain("memo")>>

\* the cell texts tried under a column
CellPool(name) ==
    CASE name.text \in {"k", "strike_price"} -> {<<"7">>}
      [] name.text = "strike" -> IF name.caps THEN {<<" ","8"," ">>, <<"N","A">>}
                                 ELSE {<<"9">>, <<"x">>}
      [] name.text = "cp" -> {<<"C","a","l","l","s">>}
      [] name.text = "type" -> {<<" ","P","u","t"," ">>, <<"c","p">>}
      [] name.text = "ticker" -> {<<"S","P","Y">>, Txt0}
      [] name.text = "underlying" -> {<<"S","P","X">>}
      [] name.text = "notional" -> {<<"6","0","0">>}
      [] name.text = "premium" -> {<<"-","5">>, <<"N","o","n","e">>}
      [] name.text = "price" -> {<<"$","2">>}
      [] name.text = "size" -> {<<"3">>, <<"n","/","a">>}
      [] name.text = "side" -> {<<"A","t"," ","B","i","d">>, <<"s","w","e","e","p">>}
      [] OTHER -> {<<"h","i">>}

RECURSIVE RowsUnder(_)
RowsUnder(header) ==
    IF header = <<>> THEN {<<>>}
    ELSE {<<c>> \o rest : c \in CellPool(Head(header)), rest \in RowsUnder(Tail(header))}

FreeHeaders ==
    {SelectSeq(HeaderNames, LAMBDA n : n \in {HeaderNames[i] : i \in picked}) :
        picked \in {p \in SUBSET (1..Len(HeaderNames)) :
                        Cardinality(p) \in 1..MaxCols}}

CsvInputs ==
    {[header |-> TestHeader, rows |-> rs, provider |-> None] :
        rs \in UNION {[1..n -> TestRows] : n \in 0..MaxCsvRows}}
    \cup
    UNION {{[header |-> h, rows |-> <<r>>, provider |-> Some("broker")] :
                r \in RowsUnder(h)} : h \in FreeHeaders}

\* a FlowRow built directly (FlowRow(...), FlowTable.model_validate)
Row(strike, option_type, side, premium) ==
    [symbol |-> <<"S","P","X">>, underlying |-> None, expiry |-> None,
     strike |-> strike, option_type |-> option_type, side |-> side,
     price |-> None, size |-> None, premium |-> premium,
     open_interest |-> None, iv |-> None, delta |-> None, timestamp |-> None]

Table(rows) == [rows |-> rows, provider |-> None]

FreeRows ==
    {Row(kt[1], kt[2], sd, p) :
        kt \in {<<6900, "C">>, <<6900, "P">>, <<6905, "C">>},
        sd \in {Some("ASK"), Some("BID"), Some("MID"), Some("UNKNOWN"), None},
        p \in {None, Some(0 - 1), Some(2)}}

\* row i sits on strike 6900 + i
WideTables ==
    UNION {{[i \in 1..n |-> Row(6900 + i, "C", Some("ASK"), Some(prem[i]))] :
                prem \in [1..n -> {1, 2}]} : n \in 1..MaxWide}

\* tables whose rows carry a price and a size beside the premium
PricedRows ==
    {[Row(6900, "C", sd, p) EXCEPT !.price = pr, !.size = sz] :
        sd \in {Some("ASK"), Some("BID")}, p \in {None, Some(5)},
        pr \in {None, Some(2)}, sz \in {None, Some(3)}}

PricedTables == {Table(rs) : rs \in UNION {[1..n -> PricedRows] : n \in 0..MaxCsvRows}}

\* the tables concurrent runs are given: one scored by the heuristic, one on
\* which the heuristic raises
RunTables ==
    {Table(<<Row(6900, "C", Some("ASK"), Some(2)), Row(6905, "P", Some("BID"), Some(2))>>),
     Table(<<Row(6900, "C", Some("ASK"), Some(0 - 1))>>)}

\* rows with an iv and a delta, for tables given in two orders
PermRows ==
    {[Row(6900, "C", Some("ASK"), Some(2)) EXCEPT !.iv = Some(20), !.delta = Some(1)],
     [Row(6905, "P", Some("BID"), Some(2)) EXCEPT !.iv = Some(30)],
     [Row(6905, "C", Some("MID"), Some(1)) EXCEPT !.delta = Some(0 - 1)],
     [Row(6910, "P", Some("ASK"), None) EXCEPT !.iv = Some(25), !.delta = Some(1)],
     Row(6900, "P", Some("BID"), Some(1)),
     [Row(6910, "C", Some("BID"), Some(2)) EXCEPT !.iv = Some(40)]}

RowOrders(n) == {p \in [1..n -> 1..n] : \A i, j \in 1..n : p[i] = p[j] => i = j}
Permuted(rows, p) == [i \in 1..Len(rows) |-> rows[p[i]]]
Reversed(rows) == [i \in 1..Len(rows) |-> rows[Len(rows) + 1 - i]]

\* a table and the same rows in another order
PermPairs ==
    UNION {{<<Table(rs), Table(Permuted(rs, p))>> : rs \in [1..n -> PermRows],
                                                    p \in RowOrders(n)} :
              n \in 0..MaxPermRows}
    \cup {<<Table(rs), Table(Reversed(rs))>> : rs \in WideTables}

FeatureTables ==
    {Table(rs) : rs \in UNION {[1..n -> FreeRows] : n \in 0..MaxRows} \cup WideTables}

(***************************************************************************)
(* main.py: each handler is one step, from the request to the response.    *)
(* A file body is held by what it is: kind "csv" with the header and rows  *)
(* pandas tabulates, "image", "empty" (no bytes) or "oversize" (longer     *)
(* than max_upload_mb allows).  An upload keeps the bytes written at its   *)
(* storage_path in the field data.  Upload ids are uuid4 values: fresh,    *)
(* here the position in the Upload table.  The require_api_key dependency  *)
(* and the settings read at import are outside the model: a handler step   *)
(* starts at the first statement of the handler's body.                    *)
(***************************************************************************)
MaxUploads == 2           \* Upload records
MaxAnalyses == 1          \* Analysis records

CONFIDENCE_PCT == 55      \* confidence=0.55
DISCLAIMER == "Educational use only. This report is not financial advice, not a recommendation, and not an invitation to trade."

FileOf(kind, header, rows) == [kind |-> kind, header |-> header, rows |-> rows]
EmptyFile == FileOf("empty", <<>>, <<>>)
OversizeFile == FileOf("oversize", <<>>, <<>>)
ImageFile == FileOf("image", <<>>, <<>>)

\* content_type.startswith("image/")
StartsWithImage(content_type) == content_type \in {"image/png", "image/jpeg"}

\* what a parsing call ends in: an exception, or the FlowTable
ParsedAs(table) == [error |-> "", table |-> Some(table)]
ParseRaised(error) == [error |-> error, table |-> None]

\* parse_csv_bytes(data, provider) on stored bytes: pd.read_csv raises on bytes
\* that are no delimited text
ReadCsv(data, provider) ==
    IF data.kind = "csv" THEN ParsedAs(parse_csv_bytes(data, provider))
    ELSE ParseRaised("ParserError")

\* extract_flow_from_image: RuntimeError without OPENAI_API_KEY or when the
\* reply is no JSON, else the table validated from the reply
OcrTables == {Table(<<>>), Table(<<Row(6900, "C", Some("ASK"), Some(2))>>)}
OcrOutcomes == {ParseRaised("RuntimeError")} \cup {ParsedAs(t) : t \in OcrTables}

\* json.dumps(parsed_table.model_dump())
json_dumps(table) == [json |-> "FlowTable", rows |-> table.rows, provider |-> table.provider]

\* FlowTable.model_validate(json.loads(text)) inside try/except: None when
\* the document does not fit schemas.py
ValidFlowRow(r) ==
    /\ r.option_type \in {"C", "P"}
    /\ r.side \in {None, Some("ASK"), Some("BID"), Some("MID"), Some("UNKNOWN")}

model_validate(doc) ==
    IF doc.json = "FlowTable" /\ \A i \in 1..Len(doc.rows) : ValidFlowRow(doc.rows[i])
    THEN Some([rows |-> doc.rows, provider |-> doc.provider])
    ELSE None

\* analyze_flow(flow) from call to return
AnalyzeFlowCall(flow, file) ==
    LET features == compute_features(flow)
        forecast == build_forecast(features, file)
        returned == forecast.error = ""
    IN  [error |-> forecast.error,
         features |-> features,
         forecast |-> forecast,
         key_levels |-> IF returned THEN build_key_levels(flow) ELSE <<>>,
         rationale |-> IF returned THEN build_rationale(features) ELSE <<>>]

\* responses: a JSON body, an HTTPException, or an exception that escapes
NoResponse ==
    [op |-> "", request |-> 0, kind |-> "none", status |-> "", missing |-> <<>>,
     payload |-> None]
JsonResponse(op, request, status, missing, payload) ==
    [op |-> op, request |-> request, kind |-> "json", status |-> status,
     missing |-> missing, payload |-> payload]
HttpError(op, request, code) ==
    [op |-> op, request |-> request, kind |-> "http_error", status |-> code,
     missing |-> <<>>, payload |-> None]
Escaped(op, request, error) ==
    [op |-> op, request |-> request, kind |-> "exception", status |-> error,
     missing |-> <<>>, payload |-> None]

\* UploadModel(...); session.add(upload); session.commit()
NewUpload(upload_type, file, content_type, provider, parsed) ==
    [id |-> Len(uploads) + 1,
     upload_type |-> upload_type,
     data |-> file,
     content_type |-> IF content_type = "" THEN "application/octet-stream"
                      ELSE content_type,
     provider |-> provider,
     metadata_json |-> IF IsNone(parsed) THEN None ELSE Some(json_dumps(Val(parsed)))]

\* the checks both ingest handlers start with
RejectedFile(file) == file.kind \in {"empty", "oversize"}
Rejection(op, file) == HttpError(op, 0, IF file.kind = "empty" THEN "400" ELSE "413")

\* POST /ingest/flow; ocr is what extract_flow_from_image ends in if called
ingest_flow(file, content_type, provider, ocr) ==
    LET parsed == IF StartsWithImage(content_type) THEN ocr ELSE ReadCsv(file, provider)
    IN  /\ Len(uploads) < MaxUploads
        /\ UNCHANGED <<csv, runs, model_file, analyses>>
        /\ IF RejectedFile(file)
           THEN /\ response' = Rejection("ingest_flow", file)
                /\ UNCHANGED uploads
           ELSE IF parsed.error # ""
           THEN /\ response' = Escaped("ingest_flow", 0, parsed.error)
                /\ UNCHANGED uploads
           ELSE /\ uploads' = Append(uploads, NewUpload("flow", file, content_type,
                                                        provider, parsed.table))
                /\ response' = JsonResponse("ingest_flow", 0, "", <<>>,
                                  Some([upload_id |-> Len(uploads) + 1,
                                        rows |-> Len(Val(parsed.table).rows)]))

\* POST /ingest/chart
ingest_chart(file, content_type) ==
    /\ Len(uploads) < MaxUploads
    /\ UNCHANGED <<csv, runs, model_file, analyses>>
    /\ IF RejectedFile(file)
       THEN /\ response' = Rejection("ingest_chart", file)
            /\ UNCHANGED uploads
       ELSE /\ uploads' = Append(uploads, NewUpload("chart", file, content_type,
                                                    None, None))
            /\ response' = JsonResponse("ingest_chart", 0, "", <<>>,
                              Some([upload_id |-> Len(uploads) + 1]))

\* the table analyze works on: the stored metadata_json when it validates,
\* else the stored file parsed again
StoredTable(flow_upload, ocr) ==
    LET validated == IF IsNone(flow_upload.metadata_json) THEN None
                     ELSE model_validate(Val(flow_upload.metadata_json))
    IN  IF ~IsNone(validated) THEN ParsedAs(Val(validated))
        ELSE IF StartsWithImage(flow_upload.content_type) THEN ocr
        ELSE ReadCsv(flow_upload.data, flow_upload.provider)

\* variant of SaveAnalysis: the record is never added
SaveNothing(id, result) == analyses

\* AnalysisModel(...); session.add(analysis); session.commit()
SaveAnalysis(id, result) ==
    Append(analyses, [id |-> Len(analyses) + 1,
                      flow_upload_id |-> id,
                      result_json |-> result])

\* POST /analyze with req.flow_upload_id = id
analyze(id, ocr) ==
    LET found == id \in 1..Len(uploads)
        parsed == StoredTable(uploads[id], ocr)
        flow == Val(parsed.table)
        out == AnalyzeFlowCall(flow, model_file)
        body == [parsed_flow_table |-> flow,
                 engineered_features |-> out.features,
                 forecast |-> out.forecast,
                 key_levels |-> out.key_levels,
                 rationale |-> out.rationale,
                 confidence |-> CONFIDENCE_PCT,
                 disclaimer |-> DISCLAIMER,
                 observed |-> Len(flow.rows)]
        saves == found /\ parsed.error = "" /\ flow.rows # <<>> /\ out.error = ""
    IN  /\ saves => Len(analyses) < MaxAnalyses
        /\ UNCHANGED <<csv, runs, model_file, uploads>>
        /\ IF ~found
           THEN /\ response' = JsonResponse("analyze", id, "needs_more_data",
                                            <<"flow_upload">>, None)
                /\ UNCHANGED analyses
           ELSE IF parsed.error # ""
           THEN /\ response' = Escaped("analyze", id, parsed.error)
                /\ UNCHANGED analyses
           ELSE IF flow.rows = <<>>
           THEN /\ response' = JsonResponse("analyze", id, "needs_more_data",
                                            <<"flow_rows">>, None)
                /\ UNCHANGED analyses
           ELSE IF out.error # ""
           THEN /\ response' = Escaped("analyze", id, out.error)
                /\ UNCHANGED analyses
           ELSE /\ response' = JsonResponse("analyze", id, "ok", <<>>, Some(body))
                /\ analyses' = SaveAnalysis(id, body)

(***************************************************************************)
(* Specifications.                                                         *)
(***************************************************************************)
\* no request has been handled
ServerIdle == uploads = <<>> /\ analyses = <<>> /\ response = NoResponse

\* parse_csv_bytes on a CSV, the table then analysed
InitParse ==
    /\ \/ /\ csv \in CsvInputs
          /\ runs = [s \in {1} |-> NewRun("parse", NoTable)]
       \/ /\ csv = NoCsv
          /\ runs \in {[s \in {1} |-> NewRun("start", t)] : t \in PricedTables}
    /\ model_file = Missing
    /\ ServerIdle

NextParse == Parse \/ analyze_flow(1)

SpecParse == InitParse /\ [][NextParse]_vars

\* analyze_flow on a table
InitFeat ==
    /\ csv = NoCsv
    /\ runs \in {[s \in {1} |-> NewRun("start", t)] : t \in FeatureTables}
    /\ model_file = Missing
    /\ ServerIdle

NextFeat == analyze_flow(1)

SpecFeat == InitFeat /\ [][NextFeat]_vars

\* MaxRuns calls of analyze_flow, their statements interleaved, while
\* train_baseline rewrites the model file
InitRuns ==
    /\ csv = NoCsv
    /\ runs \in [1..MaxRuns -> {NewRun("start", t) : t \in RunTables}]
    /\ model_file \in {Missing, Corrupt}
    /\ ServerIdle

NextRuns ==
    \/ \E s \in 1..MaxRuns : analyze_flow(s)
    \/ \E classes \in {2, 3} : TrainBegin(classes)
    \/ TrainEnd

SpecRuns == InitRuns /\ [][NextRuns]_vars

\* compute_features on a table and on the same rows in another order
InitPerm ==
    /\ csv = NoCsv
    /\ runs \in {<<NewRun("start", pair[1]), NewRun("start", pair[2])>> : pair \in PermPairs}
    /\ model_file = Missing
    /\ ServerIdle

NextPerm == \E s \in {1, 2} : ComputeFeatures(s)

SpecPerm == InitPerm /\ [][NextPerm]_vars

\* the requests the server is sent
Csv(rows) == FileOf("csv", TestHeader, rows)
CsvDropped == Csv(<<TestCells(<<"x">>, <<"$","1",",","4","0","0">>)>>)
CsvGood == Csv(<<TestCells(<<"6","9","0","0">>, <<"$","1",",","4","0","0">>)>>)
CsvNegative == Csv(<<TestCells(<<"6","9","0","0">>, <<"-","5">>)>>)

FlowRequests ==
    {<<f, "text/csv">> : f \in {CsvDropped, CsvGood, CsvNegative, EmptyFile, OversizeFile}}
    \cup {<<ImageFile, "image/png">>, <<ImageFile, "">>}
ChartRequests ==
    {<<ImageFile, "image/png">>, <<ImageFile, "">>, <<CsvGood, "text/csv">>,
     <<EmptyFile, "image/png">>, <<OversizeFile, "image/png">>}

InitServer ==
    /\ csv = NoCsv
    /\ runs = <<>>
    /\ model_file = Missing
    /\ ServerIdle

NextServer ==
    \/ \E req \in FlowRequests, ocr \in OcrOutcomes :
          ingest_flow(req[1], req[2], None, ocr)
    \/ \E req \in ChartRequests : ingest_chart(req[1], req[2])
    \/ \E id \in 1..(MaxUploads + 1), ocr \in OcrOutcomes : analyze(id, ocr)

SpecServer == InitServer /\ [][NextServer]_vars

(***************************************************************************)
(* Properties of parse_csv_bytes (SpecParse).                              *)
(***************************************************************************)
\* the run was started from bytes and parse_csv_bytes has returned
Parsed == csv # NoCsv /\ runs[1].pc # "parse"
ParsedRows == runs[1].flow.rows

Mapped(f) == ~IsNone(_normalize_columns(csv.header)[f])
RawCell(i, f) == CellOf(csv.header, csv.rows[i], _normalize_columns(csv.header), f)
\* what the cell of input row i under field f coerces to; None when it does not
NumberAt(i, f) == IF Mapped(f) THEN _to_float(RawCell(i, f)) ELSE None
TypeAt(i) == IF Mapped("option_type") THEN _normalize_option_type(RawCell(i, "option_type"))
             ELSE None
WellFormed(i) == ~IsNone(NumberAt(i, "strike")) /\ ~IsNone(TypeAt(i))
\* the input rows with a strike and an option type, in source order
KeptIndices == SelectSeq([i \in 1..Len(csv.rows) |-> i], WellFormed)

RowsAreTheWellFormedInputs ==
    /\ Len(ParsedRows) = Len(KeptIndices)
    /\ \A k \in 1..Len(KeptIndices) :
          /\ ParsedRows[k].strike = Val(NumberAt(KeptIndices[k], "strike"))
          /\ ParsedRows[k].option_type = Val(TypeAt(KeptIndices[k]))

PremiumRule(i) ==
    IF ~IsNone(NumberAt(i, "premium")) THEN NumberAt(i, "premium")
    ELSE IF ~IsNone(NumberAt(i, "price")) /\ ~IsNone(NumberAt(i, "size"))
         THEN Some(Val(NumberAt(i, "price")) * Val(NumberAt(i, "size")) * 100)
         ELSE None

\* the cell of input row i under field f holds a value, and it is no number
Unparsable(i, f) ==
    Mapped(f) /\ RawCell(i, f) \notin PandasNA /\ IsNone(NumberAt(i, f))

\* C1 as stated: the table holds exactly the input rows, in source order, whose
\* strike coerces to a number and whose option type normalizes; a value that
\* does not parse in price, size, premium, open_interest, iv or delta leaves
\* that field absent and the row in place.
C1_Original ==
    Parsed =>
        /\ RowsAreTheWellFormedInputs
        /\ \A k \in 1..Len(ParsedRows) :
              \A f \in {"price", "size", "premium", "open_interest", "iv", "delta"} :
                  Unparsable(KeptIndices[k], f) => IsNone(ParsedRows[k][f])

\* C1 as amended: the same, except that a premium that does not parse is
\* price * size * 100 when price and size both parsed, and absent otherwise.
C1_KeptRows ==
    Parsed =>
        /\ RowsAreTheWellFormedInputs
        /\ \A k \in 1..Len(ParsedRows) :
              /\ \A f \in {"price", "size", "open_interest", "iv", "delta"} :
                    ParsedRows[k][f] = NumberAt(KeptIndices[k], f)
              /\ ParsedRows[k].premium = PremiumRule(KeptIndices[k])

\* two input rows: the first has no strike and is dropped, the second is kept
\* although its size does not parse
C1_Witness ==
    /\ Parsed
    /\ Len(csv.rows) = 2 /\ ~WellFormed(1) /\ WellFormed(2)
    /\ Unparsable(2, "size")
    /\ Len(ParsedRows) = 1 /\ IsNone(ParsedRows[1].size)

\* the table with every row's price and size erased
WithoutPriceAndSize(flow) ==
    [flow EXCEPT !.rows = [i \in 1..Len(flow.rows) |->
                              [flow.rows[i] EXCEPT !.price = None, !.size = None]]]

\* C3: a kept row's premium is the reported value when the premium cell
\* parsed, else price * size * 100 when price and size both parsed, else
\* absent; compute_features and build_key_levels read the premium only and
\* give the same result whatever the rows' price and size are.
C3_PremiumDerivedInParserOnly ==
    /\ Parsed => \A k \in 1..Len(ParsedRows) :
                    ParsedRows[k].premium = PremiumRule(KeptIndices[k])
    /\ ~IsNone(runs[1].features) =>
          Val(runs[1].features) = compute_features(WithoutPriceAndSize(runs[1].flow))
    /\ ~IsNone(runs[1].key_levels) =>
          Val(runs[1].key_levels) = build_key_levels(WithoutPriceAndSize(runs[1].flow))

\* a row without a premium cell value, price 3 and size 10, becomes premium
\* 3000, which is what the features total for its strike
C3_Witness ==
    /\ Parsed
    /\ Len(ParsedRows) = 1
    /\ IsNone(NumberAt(KeptIndices[1], "premium"))
    /\ NumberAt(KeptIndices[1], "price") = Some(3)
    /\ NumberAt(KeptIndices[1], "size") = Some(10)
    /\ ParsedRows[1].premium = Some(3000)
    /\ ~IsNone(runs[1].features)
    /\ Val(runs[1].features).top_strikes_by_premium
         = <<[strike |-> 6900, premium |-> 3000]>>

\* is there a column whose lower-cased, trimmed name is this candidate
Present(cand) == \E i \in 1..Len(csv.header) : csv.header[i].text = cand
\* the earliest candidate of field f present among the headers is candidate n
EarliestPresent(f, n) ==
    /\ Present(COLUMN_CANDIDATES[f][n])
    /\ \A m \in 1..(n - 1) : ~Present(COLUMN_CANDIDATES[f][m])

MappingFollowsPriority ==
    \A f \in Fields :
        LET col == _normalize_columns(csv.header)[f]
        IN  /\ IsNone(col) <=> \A n \in 1..Len(COLUMN_CANDIDATES[f]) :
                                  ~Present(COLUMN_CANDIDATES[f][n])
            /\ ~IsNone(col) =>
                  /\ \E i \in 1..Len(csv.header) : csv.header[i] = Val(col)
                  /\ \E n \in 1..Len(COLUMN_CANDIDATES[f]) :
                        EarliestPresent(f, n) /\ Val(col).text = COLUMN_CANDIDATES[f][n]

\* C7 as stated: each field maps to a column named by the earliest candidate
\* present, or to none; a field that is not mapped is absent in every row
\* (taking the empty symbol and the side UNKNOWN for absent).
C7_Original ==
    Parsed =>
        /\ MappingFollowsPriority
        /\ \A f \in Fields \ {"strike", "option_type"} :
              ~Mapped(f) => \A k \in 1..Len(ParsedRows) :
                                CASE f = "symbol" -> ParsedRows[k].symbol = <<>>
                                  [] f = "side" -> ParsedRows[k].side \in {None, Some("UNKNOWN")}
                                  [] OTHER -> IsNone(ParsedRows[k][f])

\* C7 as amended: the mapping is as stated; a field that is not mapped is
\* absent in every row when it is expiry, price, size, open_interest, iv,
\* delta or timestamp; side is then UNKNOWN, premium is price * size * 100 when
\* both parsed and else absent, underlying is the row's symbol, symbol is the
\* empty string, and without a strike or option type column no row is kept.
C7_ColumnMapping ==
    Parsed =>
        /\ MappingFollowsPriority
        /\ \A k \in 1..Len(ParsedRows) :
              /\ \A f \in {"expiry", "price", "size", "open_interest", "iv", "delta",
                            "timestamp"} :
                    ~Mapped(f) => IsNone(ParsedRows[k][f])
              /\ ~Mapped("side") => ParsedRows[k].side = Some("UNKNOWN")
              /\ ~Mapped("premium") => ParsedRows[k].premium = PremiumRule(KeptIndices[k])
              /\ ~Mapped("underlying") =>
                    ParsedRows[k].underlying
                      = IF Mapped("symbol") THEN Some(ParsedRows[k].symbol) ELSE None
              /\ ~Mapped("symbol") => ParsedRows[k].symbol = <<>>
        /\ (~Mapped("strike") \/ ~Mapped("option_type")) => ParsedRows = <<>>

\* columns K, strike and " STRIKE " together: strike outranks k, the later of
\* the two columns named strike is read, and the row has no price column
C7_Witness ==
    /\ Parsed
    /\ Present("k")
    /\ _normalize_columns(csv.header)["strike"]
         = Some([text |-> "strike", caps |-> TRUE, pad |-> TRUE])
    /\ \E i \in 1..Len(csv.header) : csv.header[i] = Plain("strike")
    /\ ~Mapped("price")
    /\ Len(ParsedRows) = 1 /\ ParsedRows[1].strike = 8 /\ IsNone(ParsedRows[1].price)

\* the text input row i holds for field f, trimmed; None when the field has no
\* column or the cell holds nothing
TextAt(i, f) ==
    IF ~Mapped(f) \/ RawCell(i, f) \in PandasNA \/ strip(RawCell(i, f)) = <<>> THEN None
    ELSE Some(strip(RawCell(i, f)))

\* C12 as stated: a kept row whose symbol is missing takes its underlying as
\* symbol, one whose underlying is missing takes its symbol as underlying,
\* and with both missing the symbol is the empty string.
C12_Original ==
    Parsed =>
        \A k \in 1..Len(ParsedRows) :
            LET symbol == TextAt(KeptIndices[k], "symbol")
                underlying == TextAt(KeptIndices[k], "underlying")
            IN  /\ (IsNone(symbol) /\ ~IsNone(underlying)) =>
                      ParsedRows[k].symbol = Val(underlying)
                /\ (IsNone(underlying) /\ ~IsNone(symbol)) =>
                      ParsedRows[k].underlying = symbol
                /\ (IsNone(symbol) /\ IsNone(underlying)) => ParsedRows[k].symbol = <<>>

(***************************************************************************)
(* Properties of compute_features and heuristic_forecast (SpecFeat).       *)
(***************************************************************************)
Flow == runs[1].flow
HasFeatures == ~IsNone(runs[1].features)
Features == Val(runs[1].features)
\* build_forecast has been called, and has returned or raised
Scored(s) == runs[s].pc \in {"forecast", "levels", "done", "raised"}

RowsWhere(P(_)) == {i \in 1..Len(Flow.rows) : P(Flow.rows[i])}
PremiumAt(i) == IF IsNone(Flow.rows[i].premium) THEN 0 ELSE Val(Flow.rows[i].premium)

RECURSIVE SumOver(_)
\* the premiums of the rows of index set S, added up
SumOver(S) ==
    IF S = {} THEN 0
    ELSE LET i == CHOOSE j \in S : TRUE IN PremiumAt(i) + SumOver(S \ {i})

\* premium bought at the ask minus premium sold at the bid, over rows of one type
NetOf(type) ==
    SumOver(RowsWhere(LAMBDA r : r.option_type = type /\ r.side = Some("ASK")))
    - SumOver(RowsWhere(LAMBDA r : r.option_type = type /\ r.side = Some("BID")))
\* all premium on one strike, whatever the side
StrikeTotal(k) == SumOver(RowsWhere(LAMBDA r : r.strike = k))
TypeTotal(type) == SumOver(RowsWhere(LAMBDA r : r.option_type = type))
Strikes == {Flow.rows[i].strike : i \in 1..Len(Flow.rows)}
TopStrikes == Features.top_strikes_by_premium
\* the row at which strike k first appears
FirstRowOf(k) == CHOOSE i \in 1..Len(Flow.rows) :
                    /\ Flow.rows[i].strike = k
                    /\ \A j \in 1..(i - 1) : Flow.rows[j].strike # k

\* C2 as stated: on the heuristic path the forecast is made without raising,
\* holds one scenario each for bull, bear and neutral, and its three
\* probabilities sum to 1.
C2_Original ==
    (Scored(1) /\ runs[1].forecast.strategy = "heuristic") =>
        LET sc == runs[1].forecast.scenarios
        IN  /\ runs[1].forecast.error = ""
            /\ Len(sc) = 3
            /\ \A n \in {"bull", "bear", "neutral"} :
                  Cardinality({i \in 1..Len(sc) : sc[i].name = n}) = 1
            /\ RatAdd(RatAdd(sc[1].probability, sc[2].probability), sc[3].probability)
                 = Rat(1, 1)

\* C4: net_call_premium is the ask premium minus the bid premium of the call
\* rows, net_put_premium the same over the put rows; rows of any other side
\* add nothing to them, and every row's premium counts in the per-strike
\* totals and in the call/put ratio.
C4_NetPremiums ==
    HasFeatures =>
        /\ Features.net_call_premium = NetOf("C")
        /\ Features.net_put_premium = NetOf("P")
        /\ \A i \in 1..Len(TopStrikes) :
              TopStrikes[i].premium = StrikeTotal(TopStrikes[i].strike)
        /\ Features.call_put_ratio
             = IF TypeTotal("P") # 0 THEN Rat(TypeTotal("C"), TypeTotal("P")) ELSE Rat(0, 1)

\* a call bought at the ask for 2 and a call at the mid for 2 on one strike:
\* the net call premium is 2 and the strike totals 4
C4_Witness ==
    /\ HasFeatures
    /\ Len(Flow.rows) = 2
    /\ \A i \in 1..2 : Flow.rows[i].option_type = "C" /\ Flow.rows[i].strike = 6900
                        /\ Flow.rows[i].premium = Some(2)
    /\ Flow.rows[1].side = Some("ASK") /\ Flow.rows[2].side = Some("MID")
    /\ Features.net_call_premium = 2
    /\ TopStrikes = <<[strike |-> 6900, premium |-> 4]>>

TopStrikesAreTotals ==
    /\ Len(TopStrikes) = Min(TOP_STRIKES, Cardinality(Strikes))
    /\ \A i \in 1..Len(TopStrikes) :
          /\ TopStrikes[i].strike \in Strikes
          /\ TopStrikes[i].premium = StrikeTotal(TopStrikes[i].strike)
    /\ \A i, j \in 1..Len(TopStrikes) : i # j => TopStrikes[i].strike # TopStrikes[j].strike

\* C8 as stated: min(8, distinct strikes) entries, each with the total
\* premium of its strike, strictly descending by premium.
C8_Original ==
    HasFeatures =>
        /\ TopStrikesAreTotals
        /\ \A i \in 1..(Len(TopStrikes) - 1) :
              TopStrikes[i].premium > TopStrikes[i + 1].premium

\* C8 as amended: min(8, distinct strikes) entries, each with the total
\* premium of its strike, never ascending by premium; strikes with equal
\* totals stand in the order in which they first appear in the table, and no
\* strike left out totals more than one listed.
C8_TopStrikes ==
    HasFeatures =>
        /\ TopStrikesAreTotals
        /\ \A i \in 1..(Len(TopStrikes) - 1) :
              \/ TopStrikes[i].premium > TopStrikes[i + 1].premium
              \/ /\ TopStrikes[i].premium = TopStrikes[i + 1].premium
                 /\ FirstRowOf(TopStrikes[i].strike) < FirstRowOf(TopStrikes[i + 1].strike)
        /\ \A k \in Strikes :
              (\A i \in 1..Len(TopStrikes) : TopStrikes[i].strike # k) =>
                  StrikeTotal(k) <= TopStrikes[Len(TopStrikes)].premium

\* nine strikes, the ninth with the larger premium: eight entries, the ninth
\* strike first, then ties in table order
C8_Witness ==
    /\ HasFeatures
    /\ Cardinality(Strikes) = 9
    /\ Len(TopStrikes) = 8
    /\ TopStrikes[1] = [strike |-> 6909, premium |-> 2]
    /\ TopStrikes[2] = [strike |-> 6901, premium |-> 1]
    /\ TopStrikes[3] = [strike |-> 6902, premium |-> 1]

\* C9 as stated: concentration_hhi is in [0, 1], is 1 when one strike holds
\* all the premium, and is 0 when the total premium is 0.
C9_Original ==
    HasFeatures =>
        LET hhi == Features.concentration_hhi
            total == SumOver(1..Len(Flow.rows))
        IN  /\ RatLeq(Rat(0, 1), hhi) /\ RatLeq(hhi, Rat(1, 1))
            /\ total = 0 => hhi = Rat(0, 1)
            /\ (total > 0 /\ \E k \in Strikes :
                    /\ StrikeTotal(k) = total
                    /\ \A o \in Strikes \ {k} : StrikeTotal(o) = 0) => hhi = Rat(1, 1)

HasKeyLevels == ~IsNone(runs[1].key_levels)
KeyLevels == Val(runs[1].key_levels)

\* C13: build_key_levels returns min(6, distinct strikes) levels; their
\* strikes are the first strikes of top_strikes_by_premium in the same order,
\* and each level names the total premium of its strike.
C13_KeyLevelsFollowTopStrikes ==
    (HasKeyLevels /\ HasFeatures) =>
        /\ Len(KeyLevels) <= KEY_LEVELS
        /\ Len(KeyLevels) = Min(KEY_LEVELS, Cardinality(Strikes))
        /\ \A i \in 1..Len(KeyLevels) :
              /\ i <= Len(TopStrikes)
              /\ KeyLevels[i].strike = TopStrikes[i].strike
              /\ KeyLevels[i].reason.amount = FormatThousands(StrikeTotal(KeyLevels[i].strike))
              /\ TopStrikes[i].premium = StrikeTotal(KeyLevels[i].strike)

\* nine strikes, the ninth with the larger premium and the others tied: six
\* key levels, eight top strikes, the ninth strike first in both
C13_Witness ==
    /\ HasKeyLevels /\ HasFeatures
    /\ Cardinality(Strikes) = 9
    /\ Len(KeyLevels) = 6 /\ Len(TopStrikes) = 8
    /\ KeyLevels[1].strike = 6909 /\ TopStrikes[1].strike = 6909
    /\ KeyLevels[2].strike = 6901 /\ KeyLevels[6].strike = 6905
    /\ StrikeTotal(6901) = StrikeTotal(6905)

(***************************************************************************)
(* Properties of predict_proba and analyze_flow under interleaving          *)
(* (SpecRuns).                                                             *)
(***************************************************************************)
Slots == 1..Len(runs)
Heuristic(s) == Scored(s) /\ runs[s].forecast.strategy = "heuristic"

\* C6 as stated: predict_proba never raises; when the model did not load, the
\* forecast is the one heuristic_forecast gives for the same features; the
\* three probabilities come from one strategy.
C6_Original ==
    \A s \in Slots :
        Scored(s) =>
            /\ runs[s].forecast.error = ""
            /\ runs[s].forecast.strategy \in {"heuristic", "model"}
            /\ Len(runs[s].forecast.scenarios) = 3
            /\ Heuristic(s) =>
                  LET h == heuristic_forecast(Val(runs[s].features))
                  IN  /\ h.error = ""
                      /\ \A i \in 1..3 :
                            runs[s].forecast.scenarios[i].probability
                              = Val(h.proba)[runs[s].forecast.scenarios[i].name]

\* two runs given the same table agree on every result both have produced
SameResults(a, b) ==
    /\ (~IsNone(runs[a].features) /\ ~IsNone(runs[b].features)) =>
          runs[a].features = runs[b].features
    /\ (~IsNone(runs[a].key_levels) /\ ~IsNone(runs[b].key_levels)) =>
          runs[a].key_levels = runs[b].key_levels
    /\ (~IsNone(runs[a].rationale) /\ ~IsNone(runs[b].rationale)) =>
          runs[a].rationale = runs[b].rationale
    /\ (Heuristic(a) /\ Heuristic(b)) => runs[a].forecast = runs[b].forecast

RunsAgree == \A a, b \in Slots : runs[a].flow = runs[b].flow => SameResults(a, b)

\* a step leaves every table as given, every result already produced as it
\* is, and touches one run at most
StepKeepsOthers ==
    \A s \in Slots :
        /\ runs'[s].flow = runs[s].flow
        /\ ~IsNone(runs[s].features) => runs'[s].features = runs[s].features
        /\ Scored(s) => runs'[s].forecast = runs[s].forecast
        /\ ~IsNone(runs[s].key_levels) => runs'[s].key_levels = runs[s].key_levels
        /\ runs'[s] # runs[s] => \A t \in Slots \ {s} : runs'[t] = runs[t]

\* C10: runs of analyze_flow on the same table, whatever the interleaving
\* with other runs and with train_baseline, give the same features, key
\* levels and rationale and the same heuristic forecast; no step changes a
\* table, a result already produced, or another run.
C10_Deterministic == []RunsAgree /\ [][StepKeepsOthers]_vars

\* two finished runs on one table, scored by the heuristic, beside a run on
\* another table that has been scored too; the model file has been rewritten
\* meanwhile
C10_Witness ==
    /\ Len(runs) >= 3
    /\ runs[1].flow = runs[2].flow /\ runs[3].flow # runs[1].flow
    /\ runs[1].pc = "done" /\ runs[2].pc = "done" /\ Scored(3)
    /\ Heuristic(1) /\ Heuristic(2)
    /\ runs[1].features = runs[2].features
    /\ runs[1].forecast = runs[2].forecast
    /\ runs[1].key_levels = runs[2].key_levels
    /\ runs[3].features # runs[1].features
    /\ model_file.state = "model"

(***************************************************************************)
(* Properties of the /analyze handler (SpecServer).                        *)
(***************************************************************************)
\* the table stored with upload id, if one is stored
TableOf(id) ==
    IF IsNone(uploads[id].metadata_json) THEN None
    ELSE model_validate(Val(uploads[id].metadata_json))

NeedsMoreData(missing) ==
    /\ response.kind = "json"
    /\ response.status = "needs_more_data"
    /\ response.missing = <<missing>>

\* C5 as stated: an analyze request ends as a response, never an exception:
\* needs_more_data [flow_upload] when no upload has the id, needs_more_data
\* [flow_rows] when the upload's table is absent or empty, else ok with the
\* table, features, forecast, key levels, rationale, confidence and
\* disclaimer.
C5_Original ==
    response.op = "analyze" =>
        LET id == response.request
            known == id \in 1..Len(uploads)
        IN  /\ response.kind = "json"
            /\ ~known => NeedsMoreData("flow_upload")
            /\ (known /\ (IsNone(TableOf(id)) \/ Val(TableOf(id)).rows = <<>>)) =>
                  NeedsMoreData("flow_rows")
            /\ (known /\ ~IsNone(TableOf(id)) /\ Val(TableOf(id)).rows # <<>>) =>
                  /\ response.status = "ok"
                  /\ ~IsNone(response.payload)
                  /\ Val(response.payload).parsed_flow_table = Val(TableOf(id))
                  /\ Len(Val(response.payload).forecast.scenarios) = 3
                  /\ Val(response.payload).confidence = CONFIDENCE_PCT
                  /\ Val(response.payload).disclaimer = DISCLAIMER

\* the tables an analyze request on upload id can be working on: the stored
\* one when it validates, else what parsing the stored file again gives
TablesOf(id) ==
    IF ~IsNone(TableOf(id)) THEN {Val(TableOf(id))}
    ELSE IF StartsWithImage(uploads[id].content_type) THEN OcrTables
    ELSE IF uploads[id].data.kind = "csv"
         THEN {parse_csv_bytes(uploads[id].data, uploads[id].provider)}
         ELSE {}

\* a stored Analysis holds an ok result for an upload whose table has rows
HoldsOkResult(a) ==
    /\ a.flow_upload_id \in 1..Len(uploads)
    /\ a.result_json.parsed_flow_table \in TablesOf(a.flow_upload_id)
    /\ a.result_json.parsed_flow_table.rows # <<>>
    /\ a.result_json.observed = Len(a.result_json.parsed_flow_table.rows)
    /\ a.result_json.forecast.error = ""
    /\ Len(a.result_json.forecast.scenarios) = 3
    /\ a.result_json.disclaimer = DISCLAIMER

AnalysesHoldOkResults == \A n \in 1..Len(analyses) : HoldsOkResult(analyses[n])

RespondedOk == response'.kind = "json" /\ response'.status = "ok"
RespondedNeedsMoreData == response'.kind = "json" /\ response'.status = "needs_more_data"

\* a step of the server: only an analyze request that answers ok adds an
\* Analysis, and it adds the one for its own result; analyze adds no upload
PersistsIffOk ==
    /\ response'.op = "analyze" =>
          /\ uploads' = uploads
          /\ RespondedOk <=> analyses' # analyses
          /\ RespondedOk =>
                /\ Len(analyses') = Len(analyses) + 1
                /\ \A n \in 1..Len(analyses) : analyses'[n] = analyses[n]
                /\ analyses'[Len(analyses')].flow_upload_id = response'.request
                /\ analyses'[Len(analyses')].result_json = Val(response'.payload)
          /\ RespondedNeedsMoreData =>
                /\ response'.missing \in {<<"flow_upload">>, <<"flow_rows">>}
                /\ uploads' = uploads /\ analyses' = analyses
    /\ response'.op # "analyze" => analyses' = analyses

\* C14: an analyze request persists an Analysis exactly when it answers ok;
\* every stored Analysis holds an ok result for an upload whose table has at
\* least one row; a needs_more_data answer leaves uploads and analyses as
\* they were.
C14_PersistedIffOk == []AnalysesHoldOkResults /\ [][PersistsIffOk]_vars

\* an Analysis is stored for the first upload, and a later request for the
\* second upload, whose table has no rows, was answered needs_more_data
C14_Witness ==
    /\ Len(analyses) = 1 /\ Len(uploads) = 2
    /\ analyses[1].flow_upload_id = 1
    /\ response.op = "analyze" /\ response.request = 2
    /\ NeedsMoreData("flow_rows")
    /\ ~IsNone(TableOf(2)) /\ Val(TableOf(2)).rows = <<>>

(***************************************************************************)
(* Properties of compute_features under a reordering of the rows           *)
(* (SpecPerm): run 1 is given a table, run 2 the same rows in another      *)
(* order.                                                                  *)
(***************************************************************************)
BothComputed == ~IsNone(runs[1].features) /\ ~IsNone(runs[2].features)
Reordered == runs[2].flow.rows # runs[1].flow.rows
\* the premiums of top_strikes_by_premium, in order
TopPremiums(s) ==
    [i \in 1..Len(Val(runs[s].features).top_strikes_by_premium) |->
        Val(runs[s].features).top_strikes_by_premium[i].premium]
\* the features without the strikes of top_strikes_by_premium
ButTopStrikes(s) == [Val(runs[s].features) EXCEPT !.top_strikes_by_premium = TopPremiums(s)]
\* two strikes of the table total the same premium
TiedStrikes == \E k, o \in Strikes : k # o /\ StrikeTotal(k) = StrikeTotal(o)

====
